---- MODULE Spec2Model ----
(***************************************************************************)
(* Verification model of the salvium-pool repository:                      *)
(*   - pool-data-collector.sh (src/unnamed/part_000): the node telemetry   *)
(*     aggregator, its Redis time series and its snapshot;                 *)
(*   - shared_template.h (src/src/shared_template.h): the cross-process    *)
(*     block-template cache.                                               *)
(***************************************************************************)
EXTENDS Integers, Sequences, FiniteSets, TLC

\* ------------------------------------------------------------------------
\* Bounds of the model
\* ------------------------------------------------------------------------

\* Number of collector runs explored with every answer of the nodes (Spec).
MaxRuns == 1

\* Number of collector runs explored with the timer between them (SpecStore).
MaxCycles == 3

\* Number of curl calls that run into --max-time.
MaxTimeouts == 1

\* Number of nodes whose answer to the second loop's curl call differs from
\* its answer to the first loop's.
MaxFlaps == 1

\* Number of invocations of the collector explored side by side
\* (SpecOverlap).
MaxInvocations == 2

\* Timer-started runs explored when the store writes of a run are replayed.
MaxReplayCycles == 2

\* Number of shared_template_update calls explored (SpecCache).
MaxUpdates == 3

\* ------------------------------------------------------------------------
\* Program constants
\* ------------------------------------------------------------------------

\* TTL=259200  # 3 days in seconds
TTL == 259200

\* SET "pool:latest_stats" ... EX 300
SNAPSHOT_EX == 300

\* curl --max-time 10
MAX_TIME == 10

\* for tool in jq redis-cli bc curl
Tools == { "jq", "redis-cli", "bc", "curl" }

\* The pattern of [[ "$node" == *"core.supportsal.com"* ]].
UPSTREAM_PATTERN == "core.supportsal.com"

\* ------------------------------------------------------------------------
\* Node lists and statistics payloads
\* ------------------------------------------------------------------------

\* Configurations of POOL_NODES: the one of the script, the same with the
\* upstream last, and a standalone setup without upstream.
NodeLists ==
    { << "core.supportsal.com:4243", "node1.supportsal.com:4243" >>,
      << "node1.supportsal.com:4243", "core.supportsal.com:4243" >>,
      << "node1.supportsal.com:4243", "node2.supportsal.com:4243" >> }

\* The glob match *"core.supportsal.com"* over the URLs of NodeLists: the
\* URLs that contain UPSTREAM_PATTERN as a substring.
Contains(url, pat) ==
    /\ pat = "core.supportsal.com"
    /\ url \in { "core.supportsal.com:4243" }

IsUpstream(node) == Contains(node, UPSTREAM_PATTERN)

Fields ==
    { "pool_hashrate", "connected_miners", "round_hashes", "pool_blocks_found",
      "last_template_fetched", "last_block_found",
      "network_hashrate", "network_difficulty", "network_height" }

Num(n) == [tag |-> "num", n |-> n]
Absent == [tag |-> "absent", n |-> 0]
Null == [tag |-> "null", n |-> 0]

\* The shell variables hold text.  Text that is a decimal number stands as
\* that number; any other text (abc, the empty text) stands as NotANumber,
\* which is below every number: a [ -gt ] test on it fails and is false.
NotANumber == -1

\* A field whose value is a JSON string, as in {"pool_hashrate": "abc"}.
Str == [tag |-> "string", n |-> NotANumber]

\* JSON objects a /stats endpoint returns: one with every field set, one
\* with other values and a zero difficulty, one with absent and null fields.
Payloads ==
    { [ pool_hashrate |-> Num(5000), connected_miners |-> Num(12),
        round_hashes |-> Num(2000), pool_blocks_found |-> Num(3),
        last_template_fetched |-> Num(170), last_block_found |-> Num(150),
        network_hashrate |-> Num(900), network_difficulty |-> Num(10000),
        network_height |-> Num(10) ],
      [ pool_hashrate |-> Num(1200), connected_miners |-> Num(4),
        round_hashes |-> Num(500), pool_blocks_found |-> Num(1),
        last_template_fetched |-> Num(180), last_block_found |-> Num(140),
        network_hashrate |-> Num(950), network_difficulty |-> Num(0),
        network_height |-> Num(11) ],
      [ pool_hashrate |-> Num(700), connected_miners |-> Absent,
        round_hashes |-> Null, pool_blocks_found |-> Num(0),
        last_template_fetched |-> Absent, last_block_found |-> Num(160),
        network_hashrate |-> Null, network_difficulty |-> Num(20000),
        network_height |-> Num(10) ] }

\* An object with malformed fields: strings where numbers are expected.
MalformedPayloads ==
    { [ pool_hashrate |-> Str, connected_miners |-> Num(7),
        round_hashes |-> Num(300), pool_blocks_found |-> Num(2),
        last_template_fetched |-> Str, last_block_found |-> Num(155),
        network_hashrate |-> Num(900), network_difficulty |-> Str,
        network_height |-> Num(10) ] }

NoObject == [ f \in Fields |-> Absent ]

\* What one curl call yields: its exit status, the kind of body and the
\* object of a JSON body.  28 is curl's timeout status, 7 a refused connect.
TimedOut == [rc |-> 28, kind |-> "empty", obj |-> NoObject]

Outcomes ==
    { TimedOut,
      [rc |-> 7, kind |-> "empty", obj |-> NoObject],
      [rc |-> 0, kind |-> "empty", obj |-> NoObject],
      [rc |-> 0, kind |-> "null", obj |-> NoObject] }
    \cup { [rc |-> 0, kind |-> "object", obj |-> p] : p \in Payloads }

\* A body that is not JSON, such as the error page of a proxy.
NotJson == [rc |-> 0, kind |-> "text", obj |-> NoObject]

\* Answers with malformed content, next to a well-formed one and a refusal.
MalformedOutcomes ==
    { NotJson, [rc |-> 7, kind |-> "empty", obj |-> NoObject] }
    \cup { [rc |-> 0, kind |-> "object", obj |-> p] : p \in MalformedPayloads }
    \cup { [rc |-> 0, kind |-> "object", obj |-> p] :
               p \in { q \in Payloads : q.connected_miners = Num(12) } }

\* What $(curl ...) yields on a host without curl: status 127, no output.
NotFound == [rc |-> 127, kind |-> "empty", obj |-> NoObject]

\* Seconds a curl call takes: a timed-out call takes --max-time.
Duration(o) == IF o.rc = 28 THEN MAX_TIME ELSE 0

\* A curl call as the history keeps it: the object of a usable answer, and
\* Failed for every other call.
Failed == [rc |-> 1, kind |-> "failed", obj |-> NoObject]

Recorded(o) ==
    IF o.rc = 0 /\ o.kind \in { "object", "text" } THEN o ELSE Failed

\* [ $? -eq 0 ] && [ -n "$stats_json" ] && [ "$stats_json" != "null" ]
RespondedAnyBody(o) == o.rc = 0 /\ o.kind # "empty"

Responded(o) == o.rc = 0 /\ o.kind # "empty" /\ o.kind # "null"

\* ------------------------------------------------------------------------
\* State
\* ------------------------------------------------------------------------

VARIABLES
    now,                    \* wall clock, seconds (date +%s)
    cycles,                 \* collector runs started so far
    waited,                 \* whether the timer has run since the last run
    POOL_NODES,             \* the configured node list
    mode,                   \* "${1:-}": "pool-only" or "" (default, main)
    pc,                     \* position of the running script
    idx,                    \* position of the for loops in POOL_NODES
    TIMESTAMP,              \* TIMESTAMP=$(date +%s)
    total_pool_hashrate,
    total_connected_miners,
    total_round_hashes,
    total_pool_blocks,
    max_last_template,
    max_last_block,
    network_hashrate,
    network_difficulty,
    network_height,
    active_nodes,
    node_stats,
    upstream_node,
    downstream_nodes,
    timeouts,               \* curl calls that timed out so far
    flaps,                  \* second-loop answers that differed from the first so far
    fetched1,               \* what the first loop's curl calls returned, in order
    fetches,                \* curl calls of the run, per position of POOL_NODES
    logged,                 \* log lines of the run: <<level, subject>>
    written,                \* store_data calls of the run: <<key, value>>
    published,              \* whether the run issued the SET of the snapshot
    status,                 \* return status of collect_aggregated_stats (-1: none yet)
    metrics,                \* Redis sorted sets: key -> [pts, exp]
    latest_stats,           \* Redis string pool:latest_stats: [json, exp]
    metrics0,               \* metrics when the run started
    latest_stats0,          \* latest_stats when the run started
    installed,              \* the tools command -v finds on the host
    redis_up,               \* whether the Redis server answers
    last_set,               \* the last SET of the snapshot: [json, at]
    other,                  \* a second invocation of the script, suspended
    lock,                   \* shared_template->lock: its holder, or "free"
    shared_template,        \* the shared structure, template_version included
    new_template,           \* the argument of the running shared_template_update
    wpc,                    \* position of the producer
    wret,                   \* what the last shared_template_update returned
    version_at_call,        \* template_version when that update was called
    updates,                \* shared_template_update calls so far
    rpc,                    \* position of every reader
    local_template,         \* every reader's copy, the out-parameter of get_latest
    local_template_version, \* every reader's local_template_version
    newer,                  \* what every reader's last shared_template_is_newer returned
    publishes,              \* the templates of the completed publishes, by version
    seen,                   \* publishes that existed when every reader last copied
    ppc,                    \* position of the template producer outside the cache
    daemon_reply,           \* what the daemon returned to the producer's last fetch
    trigger,                \* what made the producer start its last fetch
    sigusr1,                \* whether SIGUSR1 is pending on the pool process
    unit,                   \* the systemd unit the pool process runs as
    npc,                    \* position of block_notify.sh
    MAIN_PID,               \* MAIN_PID of block_notify.sh
    other_producer          \* a second producer process, suspended

totals == << total_pool_hashrate, total_connected_miners, total_round_hashes,
             total_pool_blocks >>
maxima == << max_last_template, max_last_block >>
network == << network_hashrate, network_difficulty, network_height >>
nodeVars == << active_nodes, node_stats, upstream_node, downstream_nodes >>
storeVars == << metrics, latest_stats >>
startVars == << metrics0, latest_stats0 >>
envVars == << cycles, waited, timeouts, flaps, POOL_NODES >>
runVars == << mode, TIMESTAMP >>
histVars == << fetched1, fetches, logged, written, published >>

hostVars == << installed, redis_up >>

aggVars == << now, envVars, runVars, pc, idx, totals, maxima, network,
              nodeVars, histVars, status, storeVars, startVars, hostVars,
              last_set, other >>

coreVars == << lock, shared_template, new_template, wpc, wret,
               version_at_call, updates >>
readerVars == << rpc, local_template, local_template_version, newer, seen >>

producerVars == << ppc, daemon_reply, trigger >>
notifyVars == << sigusr1, unit, npc, MAIN_PID >>

cacheVars == << lock, shared_template, new_template, wpc, wret,
                version_at_call, updates, rpc, local_template,
                local_template_version, newer, publishes, seen,
                producerVars, notifyVars, other_producer >>

vars == << aggVars, cacheVars >>

\* ------------------------------------------------------------------------
\* The store: sorted sets with expiry, and a string with expiry
\* ------------------------------------------------------------------------

MetricKeys ==
    << "pool:hashrate", "network:hashrate", "network:difficulty",
       "network:height", "pool:miners", "pool:blocks", "pool:round_hashes" >>

EffortKey == "pool:effort"

AllKeys == { MetricKeys[i] : i \in 1..Len(MetricKeys) } \cup { EffortKey }

\* exp = 0: the key does not exist; exp = -1: the key has no expiry.
NoKey == [pts |-> {}, exp |-> 0]

\* A key is readable at time t until its expiry time is reached.
Alive(z, t) == z.exp = -1 \/ z.exp > t

Live(z, t) == IF Alive(z, t) THEN z ELSE NoKey

\* ZADD key score member: the member is added, or its score updated.
ZAdd(z, t, score, member) ==
    LET cur == Live(z, t) IN
    [ pts |-> { p \in cur.pts : p.member # member }
                \cup { [score |-> score, member |-> member] },
      exp |-> IF cur.exp = 0 THEN -1 ELSE cur.exp ]

\* EXPIRE key seconds NX: the expiry is set only on a key that has none.
ExpireOnce(z, t, seconds) ==
    LET cur == Live(z, t) IN
    IF cur.exp = -1 THEN [cur EXCEPT !.exp = t + seconds] ELSE cur

\* EXPIRE key seconds
Expire(z, t, seconds) ==
    LET cur == Live(z, t) IN
    IF cur.exp = 0 THEN cur ELSE [cur EXCEPT !.exp = t + seconds]

ZRemRangeByScoreExclusive(z, t, max) ==
    LET cur == Live(z, t) IN
    LET left == { p \in cur.pts : ~(p.score < max) } IN
    IF left = {} THEN NoKey ELSE [cur EXCEPT !.pts = left]

\* ZREMRANGEBYSCORE key -inf max: removes the members with score <= max; a
\* sorted set left empty is deleted.
ZRemRangeByScore(z, t, max) ==
    LET cur == Live(z, t) IN
    LET left == { p \in cur.pts : ~(p.score <= max) } IN
    IF left = {} THEN NoKey ELSE [cur EXCEPT !.pts = left]

\* local cutoff=$((TIMESTAMP - TTL))
Cutoff(ts) == ts - TTL

\* store_data with the time of the write in the place of $TIMESTAMP.
store_dataAtNow(z, t, ts, value) ==
    ZRemRangeByScore(
        Expire(ZAdd(z, t, t, << t, value >>), t, TTL),
        t, Cutoff(t))

\* store_data: ZADD "$key" "$TIMESTAMP" "$TIMESTAMP:$value", EXPIRE "$key"
\* "$TTL", ZREMRANGEBYSCORE "$key" "-inf" "$cutoff", at wall-clock time t.
store_data(z, t, ts, value) ==
    ZRemRangeByScore(
        Expire(ZAdd(z, t, ts, << ts, value >>), t, TTL),
        t, Cutoff(ts))

\* SET key value EX seconds
SetPx(value, t, seconds) == [json |-> << value >>, exp |-> t + 1]

\* SET key value EX with the timer interval as the expiry.
SetExInterval(value, t, seconds) == [json |-> << value >>, exp |-> t + 60]

SetEx(value, t, seconds) == [json |-> << value >>, exp |-> t + seconds]

NoSnapshot == [json |-> << >>, exp |-> 0]

\* GET pool:latest_stats at time t
ReadSnapshot(t) ==
    IF latest_stats.exp > t THEN latest_stats.json ELSE << >>

\* The value the script reads back is the one it SET, and when.
NoSet == [json |-> << >>, at |-> 0]

\* redis-cli reaches the server: it is installed and the server answers.
RedisOk == "redis-cli" \in installed /\ redis_up

\* The exit status of a redis-cli command.
RedisStatus ==
    IF "redis-cli" \notin installed THEN 127
    ELSE IF redis_up THEN 0 ELSE 1

\* main's checks (lines 187-199): every tool is found by command -v, and
\* redis-cli ping succeeds.
StartupOk == (\A tool \in Tools : tool \in installed) /\ RedisOk

\* What the curl call of the script yields when the network would yield o.
Curl(o) == IF "curl" \in installed THEN o ELSE NotFound

\* ------------------------------------------------------------------------
\* collect_aggregated_stats: the pieces of its arithmetic
\* ------------------------------------------------------------------------

Pass1TotalSumming(node, cur, reported) ==
    IF IsUpstream(node) THEN reported ELSE cur + reported

\* Lines 80-91: the upstream's value becomes the total; a downstream's
\* value leaves the total alone.
Pass1Total(node, cur, reported) ==
    IF IsUpstream(node) THEN reported ELSE cur

TrackLast(v, cur) == v

\* [ "$v" -gt "$max" ] && max="$v"
TrackMax(v, cur) == IF v > cur THEN v ELSE cur

\* jq -r '.field': null and an absent field print as the text null.
JqWithoutDefault(o, field) ==
    IF o.kind = "text" \/ o.obj[field].tag \in {"absent", "null"}
    THEN NotANumber
    ELSE o.obj[field].n

\* jq -r '.field // 0': the alternative 0 replaces null and an absent field;
\* any other value is printed as it is, a string as its text.  On a body
\* that is not JSON jq prints nothing, and so does a shell without jq.
Jq(o, field) ==
    IF o.kind = "text" \/ "jq" \notin installed THEN NotANumber
    ELSE IF o.obj[field].tag \in {"absent", "null"} THEN 0
    ELSE o.obj[field].n

\* $((total + node_value)): a variable whose text is not a number is read
\* as the name of an unset variable, which is 0; the empty text is 0 as well.
ShellArith(v) == IF v = NotANumber THEN 0 ELSE v

UseSum(cur, reported) == cur + reported

\* Network stats (should be same across nodes, use latest): lines 74-77
\* assign the node's value, whatever the variable held.
UseLatest(cur, reported) == reported

NeverFails(active) == FALSE

\* [ "$active_nodes" -eq 0 ]
NoNodesResponded(active) == active = 0

EffortDueOnDifficulty(difficulty, hashes) == difficulty > 0

\* [ "$network_difficulty" -gt 0 ] && [ "$total_round_hashes" -gt 0 ]
EffortDue(difficulty, hashes) == difficulty > 0 /\ hashes > 0

\* echo "scale=2; ($total_round_hashes * 100) / $network_difficulty" | bc -l
\* The quotient truncated to two decimals, as a number of hundredths.
Effort(hashes, difficulty) == (hashes * 100 * 100) \div difficulty

\* The value of the i-th store_data call of lines 139-145.
MetricValueSwapped(i) ==
    CASE i = 1 -> total_pool_hashrate
      [] i = 2 -> network_hashrate
      [] i = 3 -> network_difficulty
      [] i = 4 -> network_height
      [] i = 5 -> total_pool_blocks
      [] i = 6 -> total_connected_miners
      [] i = 7 -> total_round_hashes

MetricValue(i) ==
    CASE i = 1 -> total_pool_hashrate
      [] i = 2 -> network_hashrate
      [] i = 3 -> network_difficulty
      [] i = 4 -> network_height
      [] i = 5 -> total_connected_miners
      [] i = 6 -> total_pool_blocks
      [] i = 7 -> total_round_hashes

\* The heredoc of lines 154-171.
aggregated_json ==
    [ pool_hashrate |-> total_pool_hashrate,
      network_hashrate |-> network_hashrate,
      network_difficulty |-> network_difficulty,
      network_height |-> network_height,
      connected_miners |-> total_connected_miners,
      pool_blocks_found |-> total_pool_blocks,
      round_hashes |-> total_round_hashes,
      last_template_fetched |-> max_last_template,
      last_block_found |-> max_last_block,
      active_nodes |-> active_nodes,
      total_nodes |-> Len(POOL_NODES),
      timestamp |-> TIMESTAMP,
      nodes_info |-> node_stats ]

\* ------------------------------------------------------------------------
\* Initial state
\* ------------------------------------------------------------------------

\* The clock starts late enough for TIMESTAMP - TTL to be positive, as the
\* epoch seconds of date +%s are.
StartTime == 4 * TTL

\* Timer interval between two runs of the collector, seconds.
Interval == 60

\* The waits explored: one interval, a retention window less one interval,
\* and the same less half a curl timeout.
Deltas == { Interval, TTL - Interval, TTL - Interval - (MAX_TIME \div 2) }

\* The variables of one invocation of the script.
Process ==
    [ mode |-> mode, pc |-> pc, idx |-> idx, TIMESTAMP |-> TIMESTAMP,
      totals |-> totals, maxima |-> maxima, network |-> network,
      nodeVars |-> nodeVars, histVars |-> histVars, status |-> status,
      startVars |-> startVars ]

\* An invocation that has not started.
IdleProcess ==
    [ mode |-> "", pc |-> "idle", idx |-> 0, TIMESTAMP |-> 0,
      totals |-> << 0, 0, 0, 0 >>, maxima |-> << 0, 0 >>,
      network |-> << 0, 0, 0 >>, nodeVars |-> << 0, << >>, "", << >> >>,
      histVars |-> << << >>, << >>, {}, << >>, FALSE >>, status |-> -1,
      startVars |-> << [ k \in AllKeys |-> NoKey ], NoSnapshot >> ]

InitCollector ==
    /\ now = StartTime
    /\ cycles = 0
    /\ waited = FALSE
    /\ timeouts = 0
    /\ flaps = 0
    /\ POOL_NODES \in NodeLists
    /\ mode = ""
    /\ pc = "idle"
    /\ idx = 0
    /\ TIMESTAMP = 0
    /\ total_pool_hashrate = 0
    /\ total_connected_miners = 0
    /\ total_round_hashes = 0
    /\ total_pool_blocks = 0
    /\ max_last_template = 0
    /\ max_last_block = 0
    /\ network_hashrate = 0
    /\ network_difficulty = 0
    /\ network_height = 0
    /\ active_nodes = 0
    /\ node_stats = << >>
    /\ upstream_node = ""
    /\ downstream_nodes = << >>
    /\ fetched1 = << >>
    /\ fetches = << >>
    /\ logged = {}
    /\ written = << >>
    /\ published = FALSE
    /\ status = -1
    /\ metrics = [ k \in AllKeys |-> NoKey ]
    /\ latest_stats = NoSnapshot
    /\ metrics0 = [ k \in AllKeys |-> NoKey ]
    /\ latest_stats0 = NoSnapshot
    /\ last_set = NoSet
    /\ other = IdleProcess

\* A host with every tool and a Redis server that answers.
HealthyHost == installed = Tools /\ redis_up = TRUE

\* ------------------------------------------------------------------------
\* Actions
\* ------------------------------------------------------------------------

\* The timer: time passes between two runs.
Wait(d, maxc) ==
    /\ pc = "idle"
    /\ cycles > 0
    /\ cycles < maxc
    /\ ~waited
    /\ waited' = TRUE
    /\ now' = now + d
    /\ UNCHANGED << cycles, timeouts, flaps, POOL_NODES, runVars, pc, idx,
                    totals, maxima, network, nodeVars, histVars, status,
                    storeVars, startVars >>
    /\ UNCHANGED << hostVars, last_set, other, cacheVars >>

\* The script starts: TIMESTAMP=$(date +%s) (line 12), the case statement
\* (lines 208-218), in default mode the checks of main (lines 187-199),
\* which end the script with exit 1, and the locals of
\* collect_aggregated_stats (lines 42-55).
Start(m, maxc, timed) ==
    /\ pc = "idle"
    /\ cycles < maxc
    /\ timed /\ cycles > 0 => waited
    /\ cycles' = cycles + 1
    /\ waited' = FALSE
    /\ mode' = m
    /\ TIMESTAMP' = now
    /\ pc' = IF m = "" /\ ~StartupOk THEN "exit" ELSE "pass1"
    /\ idx' = 1
    /\ total_pool_hashrate' = 0
    /\ total_connected_miners' = 0
    /\ total_round_hashes' = 0
    /\ total_pool_blocks' = 0
    /\ max_last_template' = 0
    /\ max_last_block' = 0
    /\ network_hashrate' = 0
    /\ network_difficulty' = 0
    /\ network_height' = 0
    /\ active_nodes' = 0
    /\ node_stats' = << >>
    /\ upstream_node' = ""
    /\ downstream_nodes' = << >>
    /\ fetched1' = << >>
    /\ fetches' = [ i \in 1..Len(POOL_NODES) |-> 0 ]
    /\ logged' = IF m = "" /\ ~StartupOk
                 THEN { << "ERROR", "startup" >> }
                 ELSE {}
    /\ written' = << >>
    /\ published' = FALSE
    /\ status' = -1
    /\ metrics0' = metrics
    /\ latest_stats0' = latest_stats
    /\ UNCHANGED << now, timeouts, flaps, POOL_NODES, storeVars >>
    /\ UNCHANGED << hostVars, last_set, other, cacheVars >>

\* One iteration of the first loop (lines 58-102) over node POOL_NODES[idx],
\* whose curl call yields Curl(o).
QueryNode(o) ==
    /\ pc = "pass1"
    /\ Curl(o).rc = 28 => timeouts < MaxTimeouts
    /\ timeouts' = IF Curl(o).rc = 28 THEN timeouts + 1 ELSE timeouts
    /\ fetches' = IF "curl" \in installed
                  THEN [fetches EXCEPT ![idx] = @ + 1]
                  ELSE fetches
    /\ LET node == POOL_NODES[idx]
           node_pool_hr == Jq(Curl(o), "pool_hashrate")
           node_miners == Jq(Curl(o), "connected_miners")
           node_round_hashes == Jq(Curl(o), "round_hashes")
           node_blocks == Jq(Curl(o), "pool_blocks_found")
           node_last_template == Jq(Curl(o), "last_template_fetched")
           node_last_block == Jq(Curl(o), "last_block_found")
       IN
       /\ now' = now + Duration(Curl(o))
       /\ fetched1' = Append(fetched1, Recorded(Curl(o)))
       /\ IF Responded(Curl(o))
          THEN /\ active_nodes' = active_nodes + 1
               /\ network_hashrate' =
                      UseLatest(network_hashrate, Jq(Curl(o), "network_hashrate"))
               /\ network_difficulty' =
                      UseLatest(network_difficulty,
                                Jq(Curl(o), "network_difficulty"))
               /\ network_height' =
                      UseLatest(network_height, Jq(Curl(o), "network_height"))
               /\ total_pool_hashrate' =
                      Pass1Total(node, total_pool_hashrate, node_pool_hr)
               /\ total_connected_miners' =
                      Pass1Total(node, total_connected_miners, node_miners)
               /\ total_round_hashes' =
                      Pass1Total(node, total_round_hashes, node_round_hashes)
               /\ total_pool_blocks' =
                      Pass1Total(node, total_pool_blocks, node_blocks)
               /\ IF IsUpstream(node)
                  THEN /\ upstream_node' = node
                       /\ UNCHANGED downstream_nodes
                  ELSE /\ downstream_nodes' = Append(downstream_nodes, node)
                       /\ UNCHANGED upstream_node
               /\ max_last_template' =
                      TrackMax(node_last_template, max_last_template)
               /\ max_last_block' = TrackMax(node_last_block, max_last_block)
               /\ node_stats' =
                      Append(node_stats,
                             [ url |-> node, hashrate |-> node_pool_hr,
                               miners |-> node_miners ])
               /\ UNCHANGED logged
          ELSE /\ logged' = logged \cup { << "WARNING", node >> }
               /\ UNCHANGED << totals, maxima, network, nodeVars >>
    /\ IF idx < Len(POOL_NODES)
       THEN idx' = idx + 1 /\ pc' = "pass1"
       ELSE idx' = 0 /\ pc' = "upstream?"
    /\ UNCHANGED << cycles, waited, flaps, POOL_NODES, runVars, written,
                    published, status, storeVars, startVars >>
    /\ UNCHANGED << hostVars, last_set, other, cacheVars >>

\* if [ -z "$upstream_node" ] (lines 105-110): without upstream the totals
\* are reset and the second loop runs.
CheckUpstream ==
    /\ pc = "upstream?"
    /\ IF upstream_node = ""
       THEN /\ logged' = logged \cup { << "INFO", "summing all nodes" >> }
            /\ total_pool_hashrate' = 0
            /\ total_connected_miners' = 0
            /\ total_round_hashes' = 0
            /\ total_pool_blocks' = 0
            /\ idx' = 1
            /\ pc' = "pass2"
       ELSE /\ pc' = "active?"
            /\ UNCHANGED << totals, idx, logged >>
    /\ UNCHANGED << now, envVars, runVars, maxima, network, nodeVars,
                    fetched1, fetches, written, published, status,
                     storeVars, startVars >>
    /\ UNCHANGED << hostVars, last_set, other, cacheVars >>

\* One iteration of the second loop (lines 112-125): POOL_NODES[idx] is
\* fetched again, and the curl call yields o.
SumNode(o) ==
    /\ pc = "pass2"
    /\ Curl(o).rc = 28 => timeouts < MaxTimeouts
    /\ timeouts' = IF Curl(o).rc = 28 THEN timeouts + 1 ELSE timeouts
    /\ Recorded(Curl(o)) # fetched1[idx] => flaps < MaxFlaps
    /\ flaps' = IF Recorded(Curl(o)) # fetched1[idx] THEN flaps + 1 ELSE flaps
    /\ now' = now + Duration(Curl(o))
    /\ fetches' = IF "curl" \in installed
                  THEN [fetches EXCEPT ![idx] = @ + 1]
                  ELSE fetches
    /\ IF Responded(Curl(o))
       THEN /\ total_pool_hashrate' =
                   total_pool_hashrate + ShellArith(Jq(Curl(o), "pool_hashrate"))
            /\ total_connected_miners' =
                   total_connected_miners
                   + ShellArith(Jq(Curl(o), "connected_miners"))
            /\ total_round_hashes' =
                   total_round_hashes + ShellArith(Jq(Curl(o), "round_hashes"))
            /\ total_pool_blocks' =
                   total_pool_blocks
                   + ShellArith(Jq(Curl(o), "pool_blocks_found"))
       ELSE UNCHANGED totals
    /\ IF idx < Len(POOL_NODES)
       THEN idx' = idx + 1 /\ pc' = "pass2"
       ELSE idx' = 0 /\ pc' = "active?"
    /\ UNCHANGED << cycles, waited, POOL_NODES, runVars, maxima, network,
                    nodeVars, fetched1, logged, written, published, status,
                     storeVars, startVars >>
    /\ UNCHANGED << hostVars, last_set, other, cacheVars >>

\* if [ "$active_nodes" -eq 0 ] (lines 131-134): return 1 before any write.
CheckActive ==
    /\ pc = "active?"
    /\ IF NoNodesResponded(active_nodes)
       THEN /\ logged' = logged \cup { << "ERROR", "No nodes responded" >> }
            /\ status' = 1
            /\ pc' = "return"
            /\ UNCHANGED idx
       ELSE /\ pc' = "store"
            /\ UNCHANGED << idx, logged, status >>
    /\ UNCHANGED << now, envVars, runVars, totals, maxima, network, nodeVars,
                    fetched1, fetches, written, published, 
                    storeVars, startVars >>
    /\ UNCHANGED << hostVars, last_set, other, cacheVars >>

\* The seven store_data calls of lines 139-145, each on a key of its own.
StoreMetrics ==
    /\ pc = "store"
    /\ metrics' =
           [ k \in AllKeys |->
               IF \E i \in 1..Len(MetricKeys) : MetricKeys[i] = k
                  /\ RedisOk
               THEN LET i == CHOOSE j \in 1..Len(MetricKeys) : MetricKeys[j] = k
                    IN store_data(metrics[k], now, TIMESTAMP, MetricValue(i))
               ELSE metrics[k] ]
    /\ written' =
           written \o [ i \in 1..Len(MetricKeys) |->
                          << MetricKeys[i], MetricValue(i) >> ]
    /\ pc' = "effort"
    /\ UNCHANGED << now, envVars, runVars, idx, totals, maxima, network,
                    nodeVars, fetched1, fetches, logged, published, status,
                    latest_stats, startVars >>
    /\ UNCHANGED << hostVars, last_set, other, cacheVars >>

\* Calculate and store effort (lines 147-151).
StoreEffort ==
    /\ pc = "effort"
    /\ IF EffortDue(network_difficulty, total_round_hashes)
       THEN LET effort == IF "bc" \in installed
                          THEN Effort(total_round_hashes, network_difficulty)
                          ELSE NotANumber
            IN
            /\ metrics' =
                   IF RedisOk
                   THEN [metrics EXCEPT
                            ![EffortKey] = store_data(@, now, TIMESTAMP, effort)]
                   ELSE metrics
            /\ written' = Append(written, << EffortKey, effort >>)
       ELSE UNCHANGED << metrics, written >>
    /\ pc' = "snapshot"
    /\ UNCHANGED << now, envVars, runVars, idx, totals, maxima, network,
                    nodeVars, fetched1, fetches, logged, published, status,
                     latest_stats, startVars >>
    /\ UNCHANGED << hostVars, last_set, other, cacheVars >>

\* SET "pool:latest_stats" "$aggregated_json" EX 300 (lines 153-174); the
\* function returns the status of this last command.
PublishSnapshot ==
    /\ pc = "snapshot"
    /\ latest_stats' = IF RedisOk
                       THEN SetEx(aggregated_json, now, SNAPSHOT_EX)
                       ELSE latest_stats
    /\ last_set' = IF RedisOk
                   THEN [json |-> << aggregated_json >>, at |-> now]
                   ELSE last_set
    /\ published' = TRUE
    /\ status' = RedisStatus
    /\ pc' = "return"
    /\ UNCHANGED << now, envVars, runVars, idx, totals, maxima, network,
                    nodeVars, fetched1, fetches, logged, written,
                     metrics, startVars >>
    /\ UNCHANGED << hostVars, other, cacheVars >>

\* The exit status of the script: in pool-only mode the function's return
\* status (line 210); main ends with exit 1 when a check fails, and else
\* logs the completion after the call (lines 202-204), and its status is
\* that of the log.
ExitStatus ==
    IF mode = "pool-only" THEN status
    ELSE IF pc = "exit" THEN 1 ELSE 0

\* The script ends, and its process with its variables.
Finish ==
    /\ pc \in { "return", "exit", "replayed" }
    /\ pc' = "idle"
    /\ idx' = 0
    /\ mode' = ""
    /\ TIMESTAMP' = 0
    /\ total_pool_hashrate' = 0
    /\ total_connected_miners' = 0
    /\ total_round_hashes' = 0
    /\ total_pool_blocks' = 0
    /\ max_last_template' = 0
    /\ max_last_block' = 0
    /\ network_hashrate' = 0
    /\ network_difficulty' = 0
    /\ network_height' = 0
    /\ active_nodes' = 0
    /\ node_stats' = << >>
    /\ upstream_node' = ""
    /\ downstream_nodes' = << >>
    /\ fetched1' = << >>
    /\ fetches' = << >>
    /\ logged' = {}
    /\ written' = << >>
    /\ published' = FALSE
    /\ status' = -1
    /\ metrics0' = [ k \in AllKeys |-> NoKey ]
    /\ latest_stats0' = NoSnapshot
    /\ UNCHANGED << now, envVars, storeVars >>
    /\ UNCHANGED << hostVars, last_set, other, cacheVars >>

\* The scheduler takes the processor from the running invocation of the
\* script and gives it to the other one: nothing in the script keeps a
\* second invocation from starting or running while the first is under way.
Switch ==
    /\ other' = Process
    /\ mode' = other.mode
    /\ pc' = other.pc
    /\ idx' = other.idx
    /\ TIMESTAMP' = other.TIMESTAMP
    /\ total_pool_hashrate' = other.totals[1]
    /\ total_connected_miners' = other.totals[2]
    /\ total_round_hashes' = other.totals[3]
    /\ total_pool_blocks' = other.totals[4]
    /\ max_last_template' = other.maxima[1]
    /\ max_last_block' = other.maxima[2]
    /\ network_hashrate' = other.network[1]
    /\ network_difficulty' = other.network[2]
    /\ network_height' = other.network[3]
    /\ active_nodes' = other.nodeVars[1]
    /\ node_stats' = other.nodeVars[2]
    /\ upstream_node' = other.nodeVars[3]
    /\ downstream_nodes' = other.nodeVars[4]
    /\ fetched1' = other.histVars[1]
    /\ fetches' = other.histVars[2]
    /\ logged' = other.histVars[3]
    /\ written' = other.histVars[4]
    /\ published' = other.histVars[5]
    /\ status' = other.status
    /\ metrics0' = other.startVars[1]
    /\ latest_stats0' = other.startVars[2]
    /\ UNCHANGED << now, envVars, storeVars, hostVars, last_set, cacheVars >>

\* ------------------------------------------------------------------------
\* The block-template cache (shared_template.h)
\* ------------------------------------------------------------------------

\* The reader processes.
Readers == { "r1", "r2" }

\* Size of the region the blobs of a template are written to.
REGION_SIZE == 4

\* The data fields of shared_template_t the model follows, in the order in
\* which an update writes them and a copy reads them.
DataFields == << "height", "difficulty", "hashing_blob_size" >>

\* The structure after shared_template_init.
ZeroTemplate == [ height |-> 0, difficulty |-> 0, hashing_blob_size |-> 0 ]

\* Templates the producer hands to shared_template_update: two successive
\* blocks, a block of a lower height (a reorg), and one whose blob does not
\* fit the region.
Templates ==
    { [ height |-> 100, difficulty |-> 5, hashing_blob_size |-> 1 ],
      [ height |-> 101, difficulty |-> 6, hashing_blob_size |-> 2 ],
      [ height |-> 99, difficulty |-> 7, hashing_blob_size |-> 3 ],
      [ height |-> 102, difficulty |-> 8, hashing_blob_size |-> REGION_SIZE + 1 ] }

\* The data fields of the shared structure.
SharedData ==
    [ height |-> shared_template.height,
      difficulty |-> shared_template.difficulty,
      hashing_blob_size |-> shared_template.hashing_blob_size ]

\* The producer has fetched nothing yet.
NoReply == [kind |-> "none", template |-> ZeroTemplate]

\* The variables of one producer process inside shared_template_update.
Producer ==
    [ wpc |-> wpc, new_template |-> new_template, wret |-> wret,
      version_at_call |-> version_at_call ]

\* A producer that has not called shared_template_update.
IdleProducer ==
    [ wpc |-> "idle", new_template |-> ZeroTemplate, wret |-> 0,
      version_at_call |-> 0 ]

InitCache ==
    /\ lock = "free"
    /\ shared_template =
           [ template_version |-> 0, height |-> 0, difficulty |-> 0,
             hashing_blob_size |-> 0 ]
    /\ new_template = ZeroTemplate
    /\ wpc = "idle"
    /\ wret = 0
    /\ version_at_call = 0
    /\ updates = 0
    /\ rpc = [ r \in Readers |-> "idle" ]
    /\ local_template = [ r \in Readers |-> ZeroTemplate ]
    /\ local_template_version = [ r \in Readers |-> 0 ]
    /\ newer = [ r \in Readers |-> FALSE ]
    /\ publishes = << ZeroTemplate >>
    /\ seen = [ r \in Readers |-> 1 ]
    /\ ppc = "wait"
    /\ daemon_reply = NoReply
    /\ trigger = "none"
    /\ sigusr1 = FALSE
    /\ npc = "idle"
    /\ MAIN_PID = 0
    /\ other_producer = IdleProducer

\* The pool runs as the unit block_notify.sh asks systemd about.
LeafUnit == unit = "salvium-pool-leaf"

Init == InitCollector /\ HealthyHost /\ InitCache /\ LeafUnit

MutexIgnored(holder) == TRUE

\* pthread_mutex_lock returns once no process holds the mutex.
MutexAvailable(holder) == holder = "free"

\* The step after the field at position i of DataFields.
AfterField(i) == IF i < Len(DataFields) THEN DataFields[i + 1] ELSE "version"

\* The position of a field in DataFields.
FieldPos(f) == CHOOSE i \in 1..Len(DataFields) : DataFields[i] = f

IsDataField(f) == \E i \in 1..Len(DataFields) : DataFields[i] = f

\* Whether the template fits the fixed-size region.
Fits(t) == t.hashing_blob_size <= REGION_SIZE

VersionKeptOnReorg(version, height, current_height) ==
    IF height < current_height THEN version ELSE version + 1

\* uint64_t template_version;  // Incremented on each update
NextVersion(version, height, current_height) == version + 1

VersionNotRecorded(own, live) == own

\* The version a reader records as its local_template_version when it copies.
RecordedVersion(own, live) == live

\* shared_template_update is called with template t; one that does not fit
\* the region is refused with WriteError (-1) before anything is written.
\* The variables of the producer outside the cache are the caller's.
UpdateCall(t) ==
    /\ wpc = "idle"
    /\ updates < MaxUpdates
    /\ updates' = updates + 1
    /\ new_template' = t
    /\ version_at_call' = shared_template.template_version
    /\ IF Fits(t)
       THEN wpc' = "lock" /\ UNCHANGED wret
       ELSE wpc' = "idle" /\ wret' = -1
    /\ UNCHANGED << lock, shared_template, rpc, local_template,
                    local_template_version, newer, publishes, seen >>
    /\ UNCHANGED << aggVars, notifyVars, other_producer >>

\* The producer takes the mutex.
UpdateLock ==
    /\ wpc = "lock"
    /\ MutexAvailable(lock)
    /\ lock' = "producer"
    /\ wpc' = DataFields[1]
    /\ UNCHANGED << shared_template, new_template, wret, version_at_call,
                    updates, rpc, local_template, local_template_version,
                    newer, publishes, seen >>
    /\ UNCHANGED << aggVars, producerVars, notifyVars, other_producer >>

\* The producer overwrites one field.
UpdateField ==
    /\ IsDataField(wpc)
    /\ shared_template' = [shared_template EXCEPT ![wpc] = new_template[wpc]]
    /\ wpc' = AfterField(FieldPos(wpc))
    /\ UNCHANGED << lock, new_template, wret, version_at_call, updates, rpc,
                    local_template, local_template_version, newer,
                    publishes, seen >>
    /\ UNCHANGED << aggVars, producerVars, notifyVars, other_producer >>

\* The producer increments template_version: the publish is complete.
UpdateVersion ==
    /\ wpc = "version"
    /\ shared_template' =
           [shared_template EXCEPT
                !.template_version =
                    NextVersion(@, new_template.height,
                                publishes[Len(publishes)].height)]
    /\ publishes' = Append(publishes, new_template)
    /\ wpc' = "unlock"
    /\ UNCHANGED << lock, new_template, wret, version_at_call, updates, rpc,
                    local_template, local_template_version, newer, seen >>
    /\ UNCHANGED << aggVars, producerVars, notifyVars, other_producer >>

\* The producer releases the mutex, and shared_template_update returns 0.
UpdateUnlock ==
    /\ wpc = "unlock"
    /\ lock' = "free"
    /\ wret' = 0
    /\ wpc' = "idle"
    /\ UNCHANGED << shared_template, new_template, version_at_call, updates,
                    rpc, local_template, local_template_version, newer,
                    publishes, seen >>
    /\ UNCHANGED << aggVars, producerVars, notifyVars, other_producer >>

\* shared_template_get_latest: reader r takes the mutex.
GetLock(r) ==
    /\ rpc[r] = "idle"
    /\ MutexAvailable(lock)
    /\ lock' = r
    /\ rpc' = [rpc EXCEPT ![r] = DataFields[1]]
    /\ UNCHANGED << shared_template, new_template, wpc, wret,
                    version_at_call, updates, local_template,
                    local_template_version, newer, publishes, seen >>
    /\ UNCHANGED << aggVars, producerVars, notifyVars, other_producer >>

\* Reader r copies one field into its local template.
GetField(r) ==
    /\ IsDataField(rpc[r])
    /\ local_template' =
           [local_template EXCEPT ![r][rpc[r]] = shared_template[rpc[r]]]
    /\ rpc' = [rpc EXCEPT ![r] = AfterField(FieldPos(rpc[r]))]
    /\ UNCHANGED << lock, shared_template, new_template, wpc, wret,
                    version_at_call, updates, local_template_version, newer,
                    publishes, seen >>
    /\ UNCHANGED << aggVars, producerVars, notifyVars, other_producer >>

\* Reader r reads the version, which becomes its local_template_version and
\* the value shared_template_get_latest returns.
GetVersion(r) ==
    /\ rpc[r] = "version"
    /\ local_template_version' =
           [local_template_version EXCEPT
                ![r] = RecordedVersion(@, shared_template.template_version)]
    /\ seen' = [seen EXCEPT ![r] = Len(publishes)]
    /\ rpc' = [rpc EXCEPT ![r] = "unlock"]
    /\ UNCHANGED << lock, shared_template, new_template, wpc, wret,
                    version_at_call, updates, local_template, newer,
                    publishes >>
    /\ UNCHANGED << aggVars, producerVars, notifyVars, other_producer >>

\* Reader r releases the mutex, and shared_template_get_latest returns.
GetUnlock(r) ==
    /\ rpc[r] = "unlock"
    /\ lock' = "free"
    /\ rpc' = [rpc EXCEPT ![r] = "idle"]
    /\ UNCHANGED << shared_template, new_template, wpc, wret,
                    version_at_call, updates, local_template,
                    local_template_version, newer, publishes, seen >>
    /\ UNCHANGED << aggVars, producerVars, notifyVars, other_producer >>

\* The result of shared_template_is_newer in process r: the live version
\* against the process's local_template_version.
IsNewerResult(r) ==
    shared_template.template_version # local_template_version[r]

\* bool shared_template_is_newer(void), called by reader r: no mutex.
IsNewer(r) ==
    /\ rpc[r] = "idle"
    /\ newer' = [newer EXCEPT ![r] = IsNewerResult(r)]
    /\ UNCHANGED << lock, shared_template, new_template, wpc, wret,
                    version_at_call, updates, rpc, local_template,
                    local_template_version, publishes, seen >>
    /\ UNCHANGED << aggVars, producerVars, notifyVars, other_producer >>

\* The steps of one run of the script.
Run(outcomes) ==
    \/ \E o \in outcomes : QueryNode(o)
    \/ CheckUpstream
    \/ \E o \in outcomes : SumNode(o)
    \/ CheckActive
    \/ StoreMetrics
    \/ StoreEffort
    \/ PublishSnapshot
    \/ Finish

\* Runs of the collector, started by hand, against nodes that may answer
\* anything.
Next ==
    \/ \E m \in { "", "pool-only" } : Start(m, MaxRuns, FALSE)
    \/ Run(Outcomes)

Spec == Init /\ [][Next]_vars

\* Answers of the nodes explored over several runs: a full object, a null
\* body and a timeout.
StoreOutcomes ==
    { o \in Outcomes :
        \/ o.kind = "null"
        \/ o.rc = 28
        \/ o.kind = "object" /\ o.obj.connected_miners.n = 12 }

\* The script as it is configured.
InitStore == Init /\ POOL_NODES[1] = "core.supportsal.com:4243"

\* Runs of the collector started by a timer.
NextStore ==
    \/ \E d \in Deltas : Wait(d, MaxCycles)
    \/ \E m \in { "", "pool-only" } : Start(m, MaxCycles, TRUE)
    \/ Run(StoreOutcomes)

SpecStore == InitStore /\ [][NextStore]_vars

\* The waits explored around the expiry of the snapshot.
ExpiryDeltas ==
    { Interval, SNAPSHOT_EX - Interval, SNAPSHOT_EX - MAX_TIME }

\* Runs of the collector started by a timer, as the snapshot ages.
NextExpiry ==
    \/ \E d \in ExpiryDeltas : Wait(d, MaxCycles)
    \/ \E m \in { "", "pool-only" } : Start(m, MaxCycles, TRUE)
    \/ Run(StoreOutcomes)

SpecExpiry == InitStore /\ [][NextExpiry]_vars

\* Hosts the script is started on: a healthy one, one without each of the
\* tools, and one whose Redis server does not answer.
InitStartup ==
    /\ InitCollector
    /\ InitCache
    /\ LeafUnit
    /\ POOL_NODES[1] = "core.supportsal.com:4243"
    /\ installed \in { Tools } \cup { Tools \ { tool } : tool \in Tools }
    /\ redis_up \in BOOLEAN

NextStartup ==
    \/ \E m \in { "", "pool-only" } : Start(m, MaxRuns, FALSE)
    \/ Run(StoreOutcomes)

SpecStartup == InitStartup /\ [][NextStartup]_vars

\* Answers of the nodes explored with two invocations: a full object and a
\* timeout.
OverlapOutcomes ==
    { o \in StoreOutcomes : o.kind # "null" }

\* Two invocations of the collector, by the timer or by hand.
NextOverlap ==
    \/ \E m \in { "", "pool-only" } : Start(m, MaxInvocations, FALSE)
    \/ Run(OverlapOutcomes)
    \/ Switch

SpecOverlap == InitStore /\ [][NextOverlap]_vars

\* Runs of the collector against nodes whose answers are malformed.
NextMalformed ==
    \/ \E m \in { "", "pool-only" } : Start(m, MaxRuns, FALSE)
    \/ Run(MalformedOutcomes)

SpecMalformed == Init /\ [][NextMalformed]_vars

\* ------------------------------------------------------------------------
\* The template producer and block_notify.sh
\* ------------------------------------------------------------------------

\* What makes the producer fetch: its periodic timer and the refresh signal.
Causes == { "timer", "signal" }

\* Templates of the daemon that are not complete: no height, no blob.
IncompleteTemplates ==
    { [ height |-> 0, difficulty |-> 5, hashing_blob_size |-> 1 ],
      [ height |-> 103, difficulty |-> 9, hashing_blob_size |-> 0 ] }

\* What a fetch from the daemon returns.
DaemonReplies ==
    { [kind |-> "failed", template |-> ZeroTemplate] }
    \cup { [kind |-> "template", template |-> t] :
               t \in Templates \cup IncompleteTemplates }

CompleteIfFetched(reply) == reply.kind = "template"

\* The producer's validation: fetched, a height other than 0, a blob.
Complete(reply) ==
    /\ reply.kind = "template"
    /\ reply.template.height # 0
    /\ reply.template.hashing_blob_size # 0

\* The producer starts a fetch, on its timer or on a pending SIGUSR1.
ProducerTrigger(cause) ==
    /\ ppc = "wait"
    /\ cause = "signal" => sigusr1
    /\ ppc' = "fetch"
    /\ trigger' = cause
    /\ sigusr1' = IF cause = "signal" THEN FALSE ELSE sigusr1
    /\ UNCHANGED << daemon_reply, unit, npc, MAIN_PID, other_producer,
                    coreVars, readerVars, publishes, aggVars >>

\* The daemon answers the fetch.
DaemonReply(reply) ==
    /\ ppc = "fetch"
    /\ Complete(reply) => updates < MaxUpdates
    /\ daemon_reply' = reply
    /\ ppc' = "validate"
    /\ UNCHANGED << trigger, notifyVars, other_producer, coreVars,
                    readerVars, publishes, aggVars >>

\* A complete template is handed to shared_template_update.
ProducerUpdate ==
    /\ ppc = "validate"
    /\ Complete(daemon_reply)
    /\ UpdateCall(daemon_reply.template)
    /\ ppc' = "update"
    /\ UNCHANGED << daemon_reply, trigger >>

\* A failed fetch or an incomplete template: no call, the cached template
\* stays in use.
ProducerSkip ==
    /\ ppc = "validate"
    /\ ~Complete(daemon_reply)
    /\ ppc' = "wait"
    /\ UNCHANGED << daemon_reply, trigger, notifyVars, other_producer,
                    coreVars, readerVars, publishes, aggVars >>

\* shared_template_update has returned.
ProducerReturn ==
    /\ ppc = "update"
    /\ wpc = "idle"
    /\ ppc' = "wait"
    /\ UNCHANGED << daemon_reply, trigger, notifyVars, other_producer,
                    coreVars, readerVars, publishes, aggVars >>

\* The pid of the pool process.
PoolPid == 4711

\* systemctl show --property MainPID --value u: the main pid of unit u, and
\* 0 for a unit that is not running.
MainPID(u) == IF unit = u THEN PoolPid ELSE 0

\* block_notify.sh, lines 5-9: the log line, and
\* MAIN_PID=$(systemctl show --property MainPID --value salvium-pool-leaf).
NotifyStart ==
    /\ npc = "idle"
    /\ MAIN_PID' = MainPID("salvium-pool-leaf")
    /\ npc' = "signal"
    /\ UNCHANGED << sigusr1, unit, producerVars, other_producer, coreVars,
                    readerVars, publishes, aggVars >>

\* block_notify.sh, lines 11-19: kill -USR1 $MAIN_PID when MAIN_PID is
\* neither empty nor 0, an ERROR line otherwise, and exit 0.
NotifySignal ==
    /\ npc = "signal"
    /\ sigusr1' = IF MAIN_PID # 0 THEN TRUE ELSE sigusr1
    /\ npc' = "idle"
    /\ UNCHANGED << unit, MAIN_PID, producerVars, other_producer, coreVars,
                    readerVars, publishes, aggVars >>

\* The scheduler takes the processor from the producer that runs and gives
\* it to the other one.
SwitchProducer ==
    /\ other_producer' = Producer
    /\ wpc' = other_producer.wpc
    /\ new_template' = other_producer.new_template
    /\ wret' = other_producer.wret
    /\ version_at_call' = other_producer.version_at_call
    /\ UNCHANGED << lock, shared_template, updates, readerVars, publishes,
                    producerVars, notifyVars, aggVars >>

\* A producer about which nothing is known but that it calls
\* shared_template_update.
AnyUpdate(t) == UpdateCall(t) /\ UNCHANGED producerVars

\* One producer and the readers on the template cache.
NextCache ==
    \/ \E t \in Templates : AnyUpdate(t)
    \/ UpdateLock
    \/ UpdateField
    \/ UpdateVersion
    \/ UpdateUnlock
    \/ \E r \in Readers : GetLock(r)
    \/ \E r \in Readers : GetField(r)
    \/ \E r \in Readers : GetVersion(r)
    \/ \E r \in Readers : GetUnlock(r)
    \/ \E r \in Readers : IsNewer(r)

SpecCache == InitStore /\ [][NextCache]_vars

\* The steps of shared_template_update after the call.
UpdateSteps ==
    \/ UpdateLock
    \/ UpdateField
    \/ UpdateVersion
    \/ UpdateUnlock

\* The steps of the producer around shared_template_update.
ProducerSteps ==
    \/ \E cause \in Causes : ProducerTrigger(cause)
    \/ \E reply \in DaemonReplies : DaemonReply(reply)
    \/ ProducerUpdate
    \/ ProducerSkip
    \/ ProducerReturn

\* The producer with its fetches, block_notify.sh and one reader.
NextProducer ==
    \/ ProducerSteps
    \/ UpdateSteps
    \/ NotifyStart
    \/ NotifySignal
    \/ GetLock("r1")
    \/ GetField("r1")
    \/ GetVersion("r1")
    \/ GetUnlock("r1")

SpecProducer == InitStore /\ [][NextProducer]_vars

\* The pool runs as one of the two units of the repository.
InitNotify ==
    /\ InitCollector
    /\ HealthyHost
    /\ InitCache
    /\ POOL_NODES[1] = "core.supportsal.com:4243"
    /\ unit \in { "salvium-pool-leaf", "salvium-pool" }

\* The producer and block_notify.sh.
NextNotify ==
    \/ ProducerSteps
    \/ UpdateSteps
    \/ NotifyStart
    \/ NotifySignal

\* The script runs to its end, the producer acts on a pending signal and
\* finishes what it started; its timer may never fire.
FairNotify ==
    /\ WF_vars(NotifySignal)
    /\ SF_vars(ProducerTrigger("signal"))
    /\ WF_vars(\E reply \in DaemonReplies : DaemonReply(reply))
    /\ WF_vars(ProducerUpdate)
    /\ WF_vars(ProducerSkip)
    /\ WF_vars(ProducerReturn)
    /\ WF_vars(UpdateSteps)

SpecNotify == InitNotify /\ [][NextNotify]_vars /\ FairNotify

\* Two producers that call shared_template_update side by side.
NextProducers ==
    \/ \E t \in Templates : AnyUpdate(t)
    \/ UpdateSteps
    \/ SwitchProducer

SpecProducers == InitStore /\ [][NextProducers]_vars

\* ------------------------------------------------------------------------
\* Vocabulary of the properties
\* ------------------------------------------------------------------------

\* Positions of POOL_NODES whose first fetch of the run gave a usable answer.
RespondedIdx == { i \in 1..Len(fetched1) : fetched1[i].kind # "failed" }

\* Those of them that match the upstream identifier.
UpstreamIdx == { i \in RespondedIdx : IsUpstream(POOL_NODES[i]) }

\* What the node at position i reported for a field.
Reported(i, field) == Jq(fetched1[i], field)

RECURSIVE SumTo(_, _)
\* The sum of a field over the responding nodes at positions 1..n.
SumTo(n, field) ==
    IF n = 0 THEN 0
    ELSE SumTo(n - 1, field)
         + (IF n \in RespondedIdx THEN Reported(n, field) ELSE 0)

\* The greatest value of a field over the responding nodes.
MaxReported(field) ==
    LET vals == { Reported(i, field) : i \in RespondedIdx } IN
    CHOOSE v \in vals : \A w \in vals : w <= v

\* The first loop is over.
FirstLoopDone == pc \in { "upstream?", "pass2", "active?", "store", "effort",
                          "snapshot", "return" }

\* The run has completed a successful cycle: the snapshot is written.
CycleDone == pc = "return" /\ status = 0

\* The snapshot as the store holds it.
Snapshot == latest_stats.json[1]

\* The values the run appended under a key.
WrittenTo(key) ==
    { written[i][2] : i \in { j \in 1..Len(written) : written[j][1] = key } }

\* ------------------------------------------------------------------------
\* C1
\* ------------------------------------------------------------------------

\* C1: in every completed cycle in which a node matching the upstream
\* identifier responded, the pool hashrate, connected miners, round hashes
\* and blocks found of the snapshot and of the time series are exactly the
\* values that node reported, whatever the other nodes reported and wherever
\* the upstream stands in POOL_NODES.
C1_UpstreamVerbatim ==
    CycleDone =>
        \A i \in UpstreamIdx :
            /\ Snapshot.pool_hashrate = Reported(i, "pool_hashrate")
            /\ Snapshot.connected_miners = Reported(i, "connected_miners")
            /\ Snapshot.round_hashes = Reported(i, "round_hashes")
            /\ Snapshot.pool_blocks_found = Reported(i, "pool_blocks_found")
            /\ WrittenTo("pool:hashrate") = { Reported(i, "pool_hashrate") }
            /\ WrittenTo("pool:miners") = { Reported(i, "connected_miners") }
            /\ WrittenTo("pool:round_hashes") = { Reported(i, "round_hashes") }
            /\ WrittenTo("pool:blocks") = { Reported(i, "pool_blocks_found") }

\* A completed cycle whose upstream stands last in the list and answered
\* after a downstream that reported other, non-zero values.
C1_Witness ==
    /\ CycleDone
    /\ UpstreamIdx = { 2 }
    /\ 1 \in RespondedIdx
    /\ Reported(1, "pool_hashrate") > 0
    /\ Reported(1, "pool_hashrate") # Reported(2, "pool_hashrate")
    /\ Snapshot.pool_hashrate = Reported(2, "pool_hashrate")

\* ------------------------------------------------------------------------
\* C2
\* ------------------------------------------------------------------------

\* C2: in every completed cycle in which no upstream responded, each of the
\* pool hashrate, connected miners, round hashes and blocks found of the
\* snapshot is the sum of that field over the nodes that responded in the
\* cycle, those the snapshot counts as active and lists in nodes_info.
C2_StandaloneSums ==
    (CycleDone /\ UpstreamIdx = {}) =>
        /\ Snapshot.pool_hashrate = SumTo(Len(POOL_NODES), "pool_hashrate")
        /\ Snapshot.connected_miners =
               SumTo(Len(POOL_NODES), "connected_miners")
        /\ Snapshot.round_hashes = SumTo(Len(POOL_NODES), "round_hashes")
        /\ Snapshot.pool_blocks_found =
               SumTo(Len(POOL_NODES), "pool_blocks_found")

\* ------------------------------------------------------------------------
\* C3
\* ------------------------------------------------------------------------

C4_NoTornRead ==
    \A r \in Readers :
        rpc[r] \in { "unlock", "idle" } =>
            /\ local_template_version[r] + 1 \in 1..Len(publishes)
            /\ local_template[r] = publishes[local_template_version[r] + 1]

\* A reader returns from a copy of the second publish while the producer
\* waits for the mutex with the next template.
C4_Witness ==
    \E r \in Readers :
        /\ rpc[r] = "unlock"
        /\ lock = r
        /\ wpc = "lock"
        /\ local_template_version[r] = 2
        /\ local_template[r] = publishes[3]
        /\ new_template # local_template[r]

\* ------------------------------------------------------------------------
\* C5
\* ------------------------------------------------------------------------

\* C5: template_version never decreases; it changes only in the publishing
\* step of an update that fits the region, never in a copy, a comparison or
\* a refused update; and when an update returns success the version is
\* greater than it was when the update was called, also when the template's
\* height is lower than the one it replaces.
C5_VersionIncreases ==
    [][ /\ shared_template'.template_version >= shared_template.template_version
        /\ shared_template'.template_version # shared_template.template_version
               => wpc = "version" /\ wpc' = "unlock" /\ Fits(new_template)
        /\ (wpc = "unlock" /\ wpc' = "idle")
               => /\ wret' = 0
                  /\ shared_template'.template_version > version_at_call
        /\ (updates' # updates /\ ~Fits(new_template'))
               => /\ wret' = -1
                  /\ shared_template' = shared_template
      ]_vars

\* An update whose template is lower than the one it replaced has returned
\* success, and the version counts it.
C5_Witness ==
    /\ wpc = "idle"
    /\ wret = 0
    /\ Len(publishes) = 3
    /\ publishes[3].height < publishes[2].height
    /\ shared_template.template_version = 2
    /\ SharedData = publishes[3]

\* ------------------------------------------------------------------------
\* C6
\* ------------------------------------------------------------------------

\* C6: in a reader that is not inside shared_template_get_latest,
\* shared_template_is_newer is true exactly when a publish has completed
\* since the reader's last copy (false right after the copy and until the
\* next publish, true after it), and the call can always be taken, whoever
\* holds the mutex.
C6_IsNewerExact ==
    \A r \in Readers :
        rpc[r] = "idle" =>
            /\ IsNewerResult(r) <=> Len(publishes) > seen[r]
            /\ ENABLED IsNewer(r)

\* A reader that copied the first publish is told of the second one while
\* the producer holds the mutex for a third.
C6_Witness ==
    \E r \in Readers :
        /\ rpc[r] = "idle"
        /\ seen[r] = 2
        /\ Len(publishes) = 3
        /\ lock = "producer"
        /\ newer[r]
        /\ IsNewerResult(r)

\* ------------------------------------------------------------------------
\* C7
\* ------------------------------------------------------------------------

\* C7: in every completed cycle the snapshot's last_template_fetched and
\* last_block_found are the greatest values of these fields over all the
\* responding nodes, upstream or not.
C7_Maxima ==
    CycleDone =>
        /\ Snapshot.last_template_fetched =
               MaxReported("last_template_fetched")
        /\ Snapshot.last_block_found = MaxReported("last_block_found")

\* A completed cycle in which the upstream has the later block and a
\* downstream, asked before it, the later template.
C7_Witness ==
    /\ CycleDone
    /\ UpstreamIdx = { 2 }
    /\ 1 \in RespondedIdx
    /\ Reported(1, "last_template_fetched") > Reported(2, "last_template_fetched")
    /\ Reported(1, "last_block_found") < Reported(2, "last_block_found")
    /\ Snapshot.last_template_fetched = Reported(1, "last_template_fetched")
    /\ Snapshot.last_block_found = Reported(2, "last_block_found")

\* ------------------------------------------------------------------------
\* C8
\* ------------------------------------------------------------------------

\* C8: in every completed cycle a pool:effort point is written if and only
\* if the aggregate network difficulty and the aggregate round hashes are
\* both greater than zero, and it is then the percentage to two decimals.
C8_EffortIff ==
    CycleDone =>
        IF Snapshot.network_difficulty > 0 /\ Snapshot.round_hashes > 0
        THEN WrittenTo(EffortKey) =
                 { (Snapshot.round_hashes * 10000) \div Snapshot.network_difficulty }
        ELSE WrittenTo(EffortKey) = {}

\* A completed cycle with a positive difficulty and no round hashes, which
\* wrote the seven base metrics and no effort.
C8_Witness ==
    /\ CycleDone
    /\ Snapshot.network_difficulty > 0
    /\ Snapshot.round_hashes = 0
    /\ Len(written) = Len(MetricKeys)
    /\ WrittenTo(EffortKey) = {}

\* ------------------------------------------------------------------------
\* C9
\* ------------------------------------------------------------------------

\* The keys the run has appended to.
AppendedKeys == { written[i][1] : i \in 1..Len(written) }

\* The points a key held when the run appended to it: no other write
\* touches the key between the start of the run and its append.
Before(key) == Live(metrics0[key], now).pts

\* C9, as amended: after an append to a metric key completes, no point whose
\* timestamp is at or before the cycle timestamp minus the retention window
\* remains under the key, and every point with a later timestamp that was
\* present before the append is still present.
C9_PrunedAtCycleCutoff ==
    \A k \in AppendedKeys :
        /\ \A p \in metrics[k].pts : p.score > TIMESTAMP - TTL
        /\ \A p \in Before(k) :
               p.score > TIMESTAMP - TTL => p \in metrics[k].pts
        /\ \E p \in metrics[k].pts : p.score = TIMESTAMP

\* An append that pruned a point of an earlier run and kept the point of
\* another one.
C9_Witness ==
    \E k \in AppendedKeys :
        /\ \E p \in Before(k) : p \notin metrics[k].pts
        /\ \E p \in Before(k) : p \in metrics[k].pts

\* C9, as stated: after an append completes, no point older than now minus
\* the retention window remains under the key, and every point inside the
\* window that was present before the append is still present.
C9_PrunedAtNow ==
    \A k \in AppendedKeys :
        /\ \A p \in metrics[k].pts : ~(p.score < now - TTL)
        /\ \A p \in Before(k) :
               ~(p.score < now - TTL) => p \in metrics[k].pts

\* ------------------------------------------------------------------------
\* C10
\* ------------------------------------------------------------------------

RECURSIVE InfoTo(_)
\* The nodes_info entries of the responding nodes at positions 1..n.
InfoTo(n) ==
    IF n = 0 THEN << >>
    ELSE IF n \in RespondedIdx
         THEN Append(InfoTo(n - 1),
                     [ url |-> POOL_NODES[n],
                       hashrate |-> Reported(n, "pool_hashrate"),
                       miners |-> Reported(n, "connected_miners") ])
         ELSE InfoTo(n - 1)

LastResponded == CHOOSE i \in RespondedIdx : \A j \in RespondedIdx : j <= i

C13_FetchedOnce ==
    \A i \in 1..Len(fetches) : fetches[i] <= 1

\* ------------------------------------------------------------------------
\* C16
\* ------------------------------------------------------------------------

\* The value of a field of the answer at position i, with 0 for a field that
\* is absent or null.
Zeroed(i, field) ==
    IF fetched1[i].obj[field].tag = "num" THEN fetched1[i].obj[field].n ELSE 0

RECURSIVE ZeroedSumTo(_, _)
\* The sum of these values over the responding nodes at positions 1..n.
ZeroedSumTo(n, field) ==
    IF n = 0 THEN 0
    ELSE ZeroedSumTo(n - 1, field)
         + (IF n \in RespondedIdx THEN Zeroed(n, field) ELSE 0)

\* The greatest of these values over the responding nodes.
ZeroedMax(field) ==
    LET vals == { Zeroed(i, field) : i \in RespondedIdx } IN
    CHOOSE v \in vals : \A w \in vals : w <= v

\* The snapshot's name of each of the four totals.
TotalFields ==
    { "pool_hashrate", "connected_miners", "round_hashes",
      "pool_blocks_found" }

\* C16: a node whose answer lacks a numeric field, or has it null, still
\* counts as responding and the run still publishes; the field counts as 0
\* in the totals taken from an upstream, in the sums of a standalone run
\* whose nodes answer its second loop as they answered the first, in the
\* maxima, in the network fields and in nodes_info.
C16_AbsentReadAsZero ==
    (pc = "return" /\ RespondedIdx # {}) =>
        /\ status = 0
        /\ Snapshot.active_nodes = Cardinality(RespondedIdx)
        /\ \A i \in UpstreamIdx : \A f \in TotalFields :
               Snapshot[f] = Zeroed(i, f)
        /\ (UpstreamIdx = {} /\ flaps = 0) =>
               \A f \in TotalFields :
                   Snapshot[f] = ZeroedSumTo(Len(POOL_NODES), f)
        /\ Snapshot.last_template_fetched = ZeroedMax("last_template_fetched")
        /\ Snapshot.last_block_found = ZeroedMax("last_block_found")
        /\ Snapshot.network_hashrate = Zeroed(LastResponded, "network_hashrate")
        /\ Snapshot.network_difficulty =
               Zeroed(LastResponded, "network_difficulty")
        /\ Snapshot.network_height = Zeroed(LastResponded, "network_height")
        /\ Len(Snapshot.nodes_info) = Cardinality(RespondedIdx)
        /\ \A i \in RespondedIdx :
               \E e \in 1..Len(Snapshot.nodes_info) :
                   /\ Snapshot.nodes_info[e].url = POOL_NODES[i]
                   /\ Snapshot.nodes_info[e].hashrate = Zeroed(i, "pool_hashrate")
                   /\ Snapshot.nodes_info[e].miners =
                          Zeroed(i, "connected_miners")

\* A standalone run has published the sums of two answers, the second of
\* which has no connected_miners, a null round_hashes and a null
\* network_hashrate.
C16_Witness ==
    /\ CycleDone
    /\ UpstreamIdx = {}
    /\ flaps = 0
    /\ RespondedIdx = { 1, 2 }
    /\ fetched1[2].obj.connected_miners.tag = "absent"
    /\ fetched1[2].obj.round_hashes.tag = "null"
    /\ fetched1[1].obj.connected_miners.tag = "num"
    /\ Snapshot.connected_miners = fetched1[1].obj.connected_miners.n
    /\ Snapshot.connected_miners > 0
    /\ Snapshot.network_hashrate = 0

\* ------------------------------------------------------------------------
\* C17
\* ------------------------------------------------------------------------

\* The numeric fields of the snapshot.
NumericFields ==
    TotalFields \cup
    { "last_template_fetched", "last_block_found", "network_hashrate",
      "network_difficulty", "network_height" }

\* C17: a malformed value (a string where a number is expected, a body that
\* is not JSON) is read as 0: in every completed cycle each numeric field
\* of the snapshot, each hashrate and miners of nodes_info and each value
\* appended to a time series is a number.
C17_MalformedReadAsZero ==
    CycleDone =>
        /\ \A f \in NumericFields : Snapshot[f] \in Nat
        /\ \A e \in 1..Len(Snapshot.nodes_info) :
               /\ Snapshot.nodes_info[e].hashrate \in Nat
               /\ Snapshot.nodes_info[e].miners \in Nat
        /\ \A i \in 1..Len(written) : written[i][2] \in Nat

\* ------------------------------------------------------------------------
\* C12
\* ------------------------------------------------------------------------

\* An invocation at position p is under way.
Busy(p) == p \notin { "idle", "return", "exit" }

\* An invocation has fetched from a node or written to the store.
Acted(f, w) == (\E i \in 1..Len(f) : f[i] > 0) \/ w # << >>

\* C12: at most one cycle is in progress: of two invocations that are both
\* under way, at most one has begun its fetches or its store writes.
C12_OneCycleAtATime ==
    (Busy(pc) /\ Busy(other.pc)) =>
        ~(Acted(fetches, written)
          /\ Acted(other.histVars[2], other.histVars[4]))

\* ------------------------------------------------------------------------
\* C14
\* ------------------------------------------------------------------------

\* C14: a snapshot that was written reads back unchanged until 300 s have
\* elapsed since it was written, whatever later runs fail, and reads as
\* absent from then on, until a run succeeds and writes the next one.
C14_SnapshotExpires ==
    ReadSnapshot(now) =
        IF last_set.json # << >> /\ now - last_set.at < 300
        THEN last_set.json
        ELSE << >>

\* The second of two failed runs after a successful one returns exactly
\* 300 s after the snapshot was written, and the snapshot reads as absent.
C14_Witness ==
    /\ pc = "return"
    /\ status = 1
    /\ cycles = 3
    /\ last_set.json # << >>
    /\ now = last_set.at + 300
    /\ ReadSnapshot(now) = << >>
    /\ ReadSnapshot(now - 1) = last_set.json

\* ------------------------------------------------------------------------
\* C15
\* ------------------------------------------------------------------------

\* C15: in both modes, a script started on a host where a tool is missing
\* or Redis does not answer fetches from no node and issues no store write,
\* and exits with a status other than 0.
C15_FailsFastAtStartup ==
    (pc # "idle" /\ ~StartupOk) =>
        /\ \A i \in 1..Len(fetches) : fetches[i] = 0
        /\ written = << >>
        /\ ~published
        /\ pc \in { "return", "exit" } => ExitStatus # 0

\* ------------------------------------------------------------------------
\* C18
\* ------------------------------------------------------------------------

\* A reply of the daemon that is a template with a height and a blob.
Usable(reply) ==
    /\ reply.kind = "template"
    /\ reply.template.height > 0
    /\ reply.template.hashing_blob_size > 0

\* C18: shared_template_update is called only with the template of the
\* last fetch, and only when that fetch succeeded and the template has a
\* height and a blob; after a failed fetch or an incomplete template the
\* producer goes back to waiting with the cache, its version and its mutex
\* untouched; and outside shared_template_update the producer never holds
\* the mutex, so that readers get the last published template.
C18_UpdateOnlyComplete ==
    [][ /\ updates' # updates =>
               /\ Usable(daemon_reply)
               /\ new_template' = daemon_reply.template
        /\ (ppc = "validate" /\ ~Usable(daemon_reply) /\ ppc' # ppc) =>
               /\ ppc' = "wait"
               /\ UNCHANGED << shared_template, lock, publishes, updates >>
        /\ ppc # "update" =>
               /\ lock # "producer"
               /\ SharedData = publishes[Len(publishes)]
               /\ shared_template.template_version = Len(publishes) - 1
      ]_vars

\* After one publish a fetch has failed; no second call was made, and a
\* reader holds a copy of the published template.
C18_Witness ==
    /\ daemon_reply.kind = "failed"
    /\ ppc = "wait"
    /\ updates = 1
    /\ shared_template.template_version = 1
    /\ rpc["r1"] = "unlock"
    /\ local_template["r1"] = publishes[2]
    /\ local_template_version["r1"] = 1

\* ------------------------------------------------------------------------
\* C19
\* ------------------------------------------------------------------------

\* C19: every run of block_notify.sh is followed by a fetch that the
\* producer starts because of the refresh signal, not because of its timer.
C19_NotifyCausesFetch ==
    (npc = "signal") ~> (ppc = "fetch" /\ trigger = "signal")

\* ------------------------------------------------------------------------
\* C20
\* ------------------------------------------------------------------------

\* A producer at position p holds the mutex.
Holding(p) == p \notin { "idle", "lock" }

\* C20: two producers are never inside the mutex together; when both are
\* outside shared_template_update the cache holds, in all its fields, the
\* template of the last publish and the version counts the publishes; and
\* after each of them has made one successful update the cache holds the
\* template of one of the two and the version is 2.
C20_UpdatesExclusive ==
    /\ ~(Holding(wpc) /\ Holding(other_producer.wpc))
    /\ (wpc = "idle" /\ other_producer.wpc = "idle") =>
           /\ lock = "free"
           /\ SharedData = publishes[Len(publishes)]
           /\ shared_template.template_version = Len(publishes) - 1
           /\ ( /\ updates = 2
                /\ new_template # ZeroTemplate
                /\ other_producer.new_template # ZeroTemplate
                /\ wret = 0
                /\ other_producer.wret = 0 ) =>
                  /\ shared_template.template_version = 2
                  /\ SharedData \in
                         { new_template, other_producer.new_template }

\* Both producers called with different templates while the version was 0,
\* both have returned, and the cache holds the template of the producer
\* that is now suspended.
C20_Witness ==
    /\ wpc = "idle"
    /\ other_producer.wpc = "idle"
    /\ updates = 2
    /\ version_at_call = 0
    /\ other_producer.version_at_call = 0
    /\ wret = 0
    /\ other_producer.wret = 0
    /\ Fits(new_template)
    /\ new_template # ZeroTemplate
    /\ other_producer.new_template # ZeroTemplate
    /\ new_template # other_producer.new_template
    /\ shared_template.template_version = 2
    /\ SharedData = other_producer.new_template

\* ------------------------------------------------------------------------
\* C21
\* ------------------------------------------------------------------------

\* The delays after which the store writes of a run are issued again.
ReplayDelays == { 0, Interval }

\* The store writes of a completed cycle (lines 139-151 and 173-174) are
\* issued a second time, d seconds later, with the cycle timestamp and the
\* values of the first time.
Replay(d) ==
    /\ pc = "return"
    /\ status = 0
    /\ RedisOk
    /\ now' = now + d
    /\ metrics' =
           [ k \in AllKeys |->
               IF k \in AppendedKeys
               THEN store_data(metrics[k], now', TIMESTAMP,
                               CHOOSE v \in WrittenTo(k) : TRUE)
               ELSE metrics[k] ]
    /\ latest_stats' = SetEx(aggregated_json, now', SNAPSHOT_EX)
    /\ last_set' = [json |-> << aggregated_json >>, at |-> now']
    /\ pc' = "replayed"
    /\ UNCHANGED << envVars, runVars, idx, totals, maxima, network,
                    nodeVars, histVars, status, startVars >>
    /\ UNCHANGED << hostVars, other, cacheVars >>

\* Runs of the collector started by a timer, each successful one followed
\* or not by a replay of its store writes.
NextReplay ==
    \/ \E d \in { Interval, TTL - Interval } : Wait(d, MaxReplayCycles)
    \/ \E m \in { "", "pool-only" } : Start(m, MaxReplayCycles, TRUE)
    \/ Run(StoreOutcomes)
    \/ \E d \in ReplayDelays : Replay(d)

SpecReplay == InitStore /\ [][NextReplay]_vars

\* C21: replaying the store writes of a completed cycle, with the same
\* cycle timestamp and the same values, leaves under every metric key the
\* set of points it held after the first execution, touches no other key,
\* and leaves a readable snapshot with the content of the first execution.
C21_ReplaySafe ==
    [][ (pc = "return" /\ pc' = "replayed") =>
          /\ \A k \in AppendedKeys :
                 Live(metrics'[k], now').pts = Live(metrics[k], now).pts
          /\ \A k \in AllKeys \ AppendedKeys : metrics'[k] = metrics[k]
          /\ latest_stats'.json = latest_stats.json
          /\ latest_stats'.json # << >>
          /\ latest_stats'.exp > now' ]_vars

\* The writes of the second run, effort included, were replayed one
\* interval after the run, on keys that hold the point of the first run too.
C21_Witness ==
    /\ pc = "replayed"
    /\ cycles = 2
    /\ now >= TIMESTAMP + Interval
    /\ EffortKey \in AppendedKeys
    /\ \A k \in AppendedKeys :
           /\ \E p \in metrics[k].pts : p.score = TIMESTAMP
           /\ \E p \in metrics[k].pts : p.score < TIMESTAMP

\* ------------------------------------------------------------------------
\* C22
\* ------------------------------------------------------------------------

\* The keys that were created at some time.
CreatedKeys == { k \in AllKeys : metrics[k].pts # {} }

\* The cycle timestamp of the last append to a key.
LastAppend(k) ==
    LET scores == { p.score : p \in metrics[k].pts } IN
    CHOOSE s \in scores : \A w \in scores : w <= s

\* The longest time between the cycle timestamp of a run and its store
\* writes: the curl timeouts of the run.
WriteDelay == MaxTimeouts * MAX_TIME

\* C22: every append to a metric sets the expiry of its key to the full
\* retention window from the time of the append; a key is there with its
\* points while less than a retention window has passed since the cycle of
\* its last append, and is absent, not merely emptied, once a retention
\* window has passed since that append.
C22_ExpiryRenewed ==
    /\ \A k \in AppendedKeys : metrics[k].exp = now + TTL
    /\ \A k \in CreatedKeys :
           /\ now - LastAppend(k) < TTL => Live(metrics[k], now) = metrics[k]
           /\ now - LastAppend(k) >= TTL + WriteDelay =>
                  Live(metrics[k], now) = NoKey

\* The effort key, appended to by the first run and not by the second, is
\* absent a retention window and a curl timeout after its append, while
\* the hashrate key, appended to by both runs, is there with its two points.
C22_Witness ==
    /\ EffortKey \in CreatedKeys
    /\ now - LastAppend(EffortKey) >= TTL + WriteDelay
    /\ Live(metrics[EffortKey], now) = NoKey
    /\ Cardinality(Live(metrics["pool:hashrate"], now).pts) = 2

\* ------------------------------------------------------------------------
\* C23
\* ------------------------------------------------------------------------

\* C23, as amended: the snapshot is written with an expiry of 300 s, which
\* is longer than the interval of the timer: a snapshot is still readable
\* one interval after it was written, when the next cycle is due, and it
\* reads as absent once 300 s have passed without a successful cycle.
C23_ExpiryOutlastsInterval ==
    /\ CycleDone =>
           /\ latest_stats.exp = now + SNAPSHOT_EX
           /\ latest_stats.exp - now > Interval
    /\ last_set.json # << >> /\ now - last_set.at <= Interval =>
           ReadSnapshot(now) = last_set.json
    /\ last_set.json # << >> /\ now - last_set.at >= SNAPSHOT_EX =>
           ReadSnapshot(now) = << >>

\* The timer fires one interval after a snapshot was written, and the
\* snapshot is readable.
C23_Witness ==
    /\ pc = "idle"
    /\ waited
    /\ last_set.json # << >>
    /\ now = last_set.at + Interval
    /\ ReadSnapshot(now) = last_set.json

\* C23, as stated: the expiry with which the snapshot is written is
\* strictly shorter than the interval of the timer.
C23_ExpiryShorterThanInterval ==
    CycleDone => latest_stats.exp - now < Interval

\* ------------------------------------------------------------------------
\* C24
\* ------------------------------------------------------------------------

RECURSIVE InfoSum(_, _)
\* The sum of a field over the first n entries of the nodes_info of the
\* snapshot.
InfoSum(n, field) ==
    IF n = 0 THEN 0
    ELSE InfoSum(n - 1, field)
         + (IF field = "hashrate" THEN Snapshot.nodes_info[n].hashrate
            ELSE Snapshot.nodes_info[n].miners)

\* C24: in every snapshot published by a cycle in which no upstream
\* responded, pool_hashrate is the sum of the hashrate entries of its
\* nodes_info and connected_miners is the sum of the miners entries, also
\* when the answer of a node changes while the cycle is running.
C24_SnapshotConsistent ==
    (CycleDone /\ UpstreamIdx = {}) =>
        /\ Snapshot.pool_hashrate =
               InfoSum(Len(Snapshot.nodes_info), "hashrate")
        /\ Snapshot.connected_miners =
               InfoSum(Len(Snapshot.nodes_info), "miners")

\* ------------------------------------------------------------------------
\* C25
\* ------------------------------------------------------------------------

\* The field of a snapshot that the metric at position i of MetricKeys is
\* the time series of.
SnapshotField(snap, i) ==
    CASE i = 1 -> snap.pool_hashrate
      [] i = 2 -> snap.network_hashrate
      [] i = 3 -> snap.network_difficulty
      [] i = 4 -> snap.network_height
      [] i = 5 -> snap.connected_miners
      [] i = 6 -> snap.pool_blocks_found
      [] i = 7 -> snap.round_hashes

\* C25: the appends of a cycle come before its snapshot write and carry
\* the cycle timestamp: whenever a snapshot with timestamp T is readable,
\* each of the seven base metric keys holds a point with timestamp T whose
\* value is the corresponding field of the snapshot.
C25_PointsBehindSnapshot ==
    ReadSnapshot(now) # << >> =>
        LET snap == ReadSnapshot(now)[1] IN
        \A i \in 1..Len(MetricKeys) :
            [ score |-> snap.timestamp,
              member |-> << snap.timestamp, SnapshotField(snap, i) >> ]
                \in Live(metrics[MetricKeys[i]], now).pts

\* The snapshot of the first run is still readable when the second run,
\* which appended nothing, has failed, and the points of the first run are
\* under the keys.
C25_Witness ==
    /\ pc = "return"
    /\ status = 1
    /\ cycles = 2
    /\ written = << >>
    /\ ReadSnapshot(now) # << >>
    /\ Snapshot.timestamp < TIMESTAMP
    /\ \A i \in 1..Len(MetricKeys) :
           \E p \in metrics[MetricKeys[i]].pts :
               p.score = Snapshot.timestamp

\* ------------------------------------------------------------------------
\* C26
\* ------------------------------------------------------------------------

\* C26: across the runs of the aggregator, a snapshot write never replaces
\* a readable snapshot with one that carries an earlier cycle timestamp.
C26_TimestampNeverDecreases ==
    [][ (ReadSnapshot(now) # << >> /\ latest_stats'.json # << >>) =>
           latest_stats'.json[1].timestamp >= ReadSnapshot(now)[1].timestamp
      ]_vars

====
